---- MODULE Spec2Model ----
(***************************************************************************)
(* EasyCore 0.8.1 (src/easycore.js): the module/extension registry and the *)
(* init / start / stop lifecycle of one facade instance, as a state        *)
(* machine.  Every host call (register, init, start, stop) is one atomic   *)
(* action: the code is synchronous and single-threaded.                    *)
(*                                                                         *)
(* The Mediator is an external collaborator: facade.trigger(...) is        *)
(* modelled by appending the event to the log of the running call.         *)
(* Module and extension bodies are opaque constructible units: a creator   *)
(* is modelled by its kind, which fixes whether construction throws and    *)
(* which hooks the constructed instance has.  The debug and                *)
(* logErrorsViaConsole settings only expose references or write to the     *)
(* console, and are left out.                                              *)
(*                                                                         *)
(* extend(), the merge the facade exposes and the constructor uses for its *)
(* configuration, is modelled on a memory of objects with identity, and    *)
(* has a specification of its own (SpecExtend) that draws the memory and   *)
(* applies extend to it.                                                   *)
(***************************************************************************)
EXTENDS FiniteSets, Integers, Sequences, TLC

VARIABLES
    modules,      \* the module pool, one entry per id, in registration order
    extensions,   \* the extension pool: id -> constructed extension
    sealed,       \* TRUE once this.init has been replaced by the no-op
    sandboxes,    \* number of Sandbox objects created so far
    noAuto,       \* ids whose conf.modules[id].autostart === false
    last,         \* the last host call: its arguments, event/hook log, outcome
    hist,         \* observer: per id, what has happened to the module so far
    initDone,     \* observer: a call of init() has returned
    calls,        \* number of host calls made
    mem,          \* the objects extend() works on, by address
    mem0,         \* observer: the memory when the last extend() call began
    merge         \* the extend() calls made: phase, deep flag, outcome

vars == <<modules, extensions, sealed, sandboxes, noAuto, last, hist,
          initDone, calls, mem, mem0, merge>>

(* ---------------------------- bounds ---------------------------------- *)

MaxCalls == 4     \* host calls per behaviour
StackDepth == 6   \* extend frames the call stack holds

(* ---------------------------- inputs ---------------------------------- *)

\* Valid module ids the host uses.  "2" is an array-index string.
Ids == {"a", "b", "2"}

\* Property names every plain object inherits from Object.prototype.
ObjectProtoKeys == {"toString"}

\* Property names that are canonical array indices: the decimal text of an
\* integer from 0 to 2^32 - 2, without leading zeros.  IndexBelow orders two
\* of them by their numeric value (by length, then digit by digit).
Digits == "0123456789"
IsDigit(c) == \E d \in 1..Len(Digits) : SubSeq(Digits, d, d) = c
DigitValue(c) == (CHOOSE d \in 1..Len(Digits) : SubSeq(Digits, d, d) = c) - 1

RECURSIVE DigitsBelow(_, _)
DigitsBelow(a, b) ==
    IF Len(a) = 0 THEN FALSE
    ELSE \/ DigitValue(Head(a)) < DigitValue(Head(b))
         \/ Head(a) = Head(b) /\ DigitsBelow(Tail(a), Tail(b))

IndexBelow(a, b) == Len(a) < Len(b) \/ (Len(a) = Len(b) /\ DigitsBelow(a, b))

IsArrayIndexText(k) ==
    /\ Len(k) > 0
    /\ \A i \in 1..Len(k) : IsDigit(SubSeq(k, i, i))
    /\ Len(k) = 1 \/ Head(k) # "0"
    /\ IndexBelow(k, "4294967295")

\* The same test, looked up for the property names the hosts below use
\* (their classification is computed once) and computed for any other name.
CommonKeys == Ids \cup ObjectProtoKeys \cup {"a", "x", "y", "0", "1"}
CommonIndexKeys == {k \in CommonKeys : IsArrayIndexText(k)}
IsArrayIndex(k) ==
    IF k \in CommonKeys THEN k \in CommonIndexKeys ELSE IsArrayIndexText(k)

\* A host value used as an id: its typeof is string or not, and the
\* property key it coerces to.
Str(k) == [str |-> TRUE, key |-> k]
NonStr(k) == [str |-> FALSE, key |-> k]

\* Creators by kind.
\*   Good      instance with start and stop hooks that return
\*   BadStart  instance whose start hook throws
\*   BadStop   instance whose stop hook throws
\*   Plain     instance without start and stop hooks
\*   Throws    the constructor throws
\*   NotFn     not a function at all (typeof creator != 'function')
Creators == {"Good", "BadStart", "BadStop", "Plain", "Throws", "NotFn"}

IsFunction(c) == c # "NotFn"
CreatorThrows(c) == c = "Throws"
HasStart(k) == k \in {"Good", "BadStart", "BadStop"}
StartThrows(k) == k = "BadStart"
HasStop(k) == k \in {"Good", "BadStart", "BadStop"}
StopThrows(k) == k = "BadStop"

(* ---------------------------- values ---------------------------------- *)

\* module.instance === null
Null == [kind |-> "null", sandbox |-> 0]

\* One entry of the event/hook log of a call.
\*   t: "warning" | "error" | "afterInit" | "afterStart" | "afterStop"
\*        an event triggered on the facade, from `site`, about `id`
\*      "creator" | "extcreator" | "start" | "stop"
\*        an invocation of a host-supplied unit
\*   err: "none", or the fault the event carries / the invocation threw
\*   msg: which message of that site (for "creator": the creator invoked)
Ev(t, site, msg, id, err) ==
    [t |-> t, site |-> site, msg |-> msg, id |-> id, err |-> err]

\* The closure state of one EasyCore instance.
Core == [modules |-> modules, extensions |-> extensions,
         sealed |-> sealed, sandboxes |-> sandboxes, noAuto |-> noAuto]

\* What a handler leaves behind: the closure state, the log, the outcome
\* ("returned", or the fault that propagates to the caller).
Res(cs, log, out) == [cs |-> cs, log |-> log, out |-> out]

(* ----------------------- property lookup ------------------------------ *)

PoolIds(mods) == {mods[i].id : i \in DOMAIN mods}

\* Position of the own property `key` of the pool.
IndexOf(mods, key) == CHOOSE i \in DOMAIN mods : mods[i].id = key

\* modules[key] is truthy: an own entry, or a method inherited from
\* Object.prototype (modules is created as {}).
ModulesTruthy(mods, key) == key \in PoolIds(mods) \/ key \in ObjectProtoKeys

\* extensions[key] is truthy.
ExtensionsTruthy(exts, key) == key \in DOMAIN exts \/ key \in ObjectProtoKeys

\* self.moduleTypeMap[key] is truthy.
TypeMapTruthy(key) == key \in {"standard", "extension"} \/ key \in ObjectProtoKeys

RECURSIVE SortedIndexKeys(_)
SortedIndexKeys(S) ==
    IF S = {} THEN <<>>
    ELSE LET m == CHOOSE k \in S : \A j \in S : k = j \/ IndexBelow(k, j)
         IN  <<m>> \o SortedIndexKeys(S \ {m})

\* The keys `for ( var k in modules )` visits: array-index keys in ascending
\* numeric order, then the other string keys in creation order.
ForInKeys(mods) ==
    LET ids == [i \in DOMAIN mods |-> mods[i].id]
    IN  SortedIndexKeys({k \in PoolIds(mods) : IsArrayIndex(k)})
        \o SelectSeq(ids, LAMBDA k : ~IsArrayIndex(k))

\* modules[key], for an own entry.
EntryOf(mods, key) == mods[IndexOf(mods, key)]

(* --------------------------- registration ----------------------------- *)

\* A registration that overwrites the creator of an existing entry.
registerStandardModule_Overwrite(cs, id, creator) ==
    IF id \in PoolIds(cs.modules)
    THEN Res([cs EXCEPT !.modules[IndexOf(cs.modules, id)].creator = creator],
             <<>>, "returned")
    ELSE IF id \in ObjectProtoKeys
    THEN Res(cs, <<Ev("warning", "registerStandardModule", "exists", id, "none")>>,
             "returned")
    ELSE Res([cs EXCEPT !.modules =
                  Append(@, [id |-> id, creator |-> creator, instance |-> Null])],
             <<>>, "returned")

\* registerStandardModule( id, creator, conf ), invoked with the facade as this.
registerStandardModule(cs, id, creator) ==
    IF ModulesTruthy(cs.modules, id)
    THEN Res(cs, <<Ev("warning", "registerStandardModule", "exists", id, "none")>>,
             "returned")
    ELSE Res([cs EXCEPT !.modules =
                  Append(@, [id |-> id, creator |-> creator, instance |-> Null])],
             <<>>, "returned")

\* registerExtension( id, creator, conf ), invoked with the facade as this.
registerExtension(cs, id, creator) ==
    IF ExtensionsTruthy(cs.extensions, id)
    THEN Res(cs, <<Ev("error", "registerExtension", "exists", id, "none")>>,
             "returned")
    ELSE IF ~IsFunction(creator)
    THEN Res(cs, <<Ev("error", "registerExtension", "create", id, "TypeError")>>,
             "returned")
    ELSE IF CreatorThrows(creator)
    THEN Res(cs, <<Ev("extcreator", "registerExtension", creator, id, "CreatorFault"),
                   Ev("error", "registerExtension", "create", id, "CreatorFault")>>,
             "returned")
    ELSE Res([cs EXCEPT !.extensions = (id :> [kind |-> creator]) @@ @],
             <<Ev("extcreator", "registerExtension", creator, id, "none")>>,
             "returned")

\* self.moduleTypeMap[type].call(this, id, creator, conf)
dispatch(cs, type, id, creator) ==
    IF type = "standard" THEN registerStandardModule(cs, id, creator)
    ELSE IF type = "extension" THEN registerExtension(cs, id, creator)
    ELSE IF type \in ObjectProtoKeys THEN Res(cs, <<>>, "returned")
    ELSE Res(cs, <<>>, "TypeError")

\* register( id, arg1, arg2 ).  arg1 is [t |-> "function", v |-> creator],
\* [t |-> "string", v |-> type tag] or [t |-> "other", v |-> String(arg1)].
register(cs, id, arg1, arg2) ==
    LET isFn == arg1.t = "function"
        noType == arg1.t = "string" /\ ~TypeMapTruthy(arg1.v)
        type == IF isFn THEN "standard" ELSE IF noType THEN "undefined" ELSE arg1.v
        creator == IF isFn THEN arg1.v ELSE IF noType THEN "NotFn" ELSE arg2
        w1 == IF noType THEN <<Ev("warning", "register", "type", id.key, "none")>>
              ELSE <<>>
    IN  IF ~id.str \/ id.key = ""
        THEN Res(cs, Append(w1, Ev("warning", "register", "id", id.key, "none")),
                 "returned")
        ELSE LET w2 == IF IsFunction(creator) THEN w1
                       ELSE Append(w1, Ev("warning", "register", "creator", id.key, "none"))
                 r == dispatch(cs, type, id.key, creator)
             IN  Res(r.cs, w2 \o r.log, r.out)

(* ------------------------------ init ---------------------------------- *)

\* One pass of the loop body of init() for a module without instance:
\* a new Sandbox, then `new module.creator(sandbox, conf.modules[moduleId])`
\* inside try/catch, the catch reporting on the facade.
initModule(cs, moduleId) ==
    LET i == IndexOf(cs.modules, moduleId)
        c == cs.modules[i].creator
        sb == cs.sandboxes + 1
        cs1 == [cs EXCEPT !.sandboxes = sb]
    IN  IF ~IsFunction(c)
        THEN Res(cs1, <<Ev("error", "initModule", "create", moduleId, "TypeError")>>,
                 "returned")
        ELSE IF CreatorThrows(c)
        THEN Res(cs1, <<Ev("creator", "init", c, moduleId, "CreatorFault"),
                        Ev("error", "initModule", "create", moduleId, "CreatorFault")>>,
                 "returned")
        ELSE Res([cs1 EXCEPT !.modules[i].instance = [kind |-> c, sandbox |-> sb]],
                 <<Ev("creator", "init", c, moduleId, "none")>>, "returned")

\* A walk that gives up at the first creator that throws.
RECURSIVE initLoop_FailFast(_, _, _)
initLoop_FailFast(cs, keys, log) ==
    IF keys = <<>> THEN Res(cs, log, "returned")
    ELSE IF EntryOf(cs.modules, Head(keys)).instance # Null
    THEN Res(cs, log, "returned")
    ELSE LET r == initModule(cs, Head(keys))
         IN  IF EntryOf(r.cs.modules, Head(keys)).instance = Null
             THEN Res(r.cs, log \o r.log, "returned")
             ELSE initLoop_FailFast(r.cs, Tail(keys), log \o r.log)

\* for ( var moduleId in modules ) { if ( module.instance !== null ) break; ... }
RECURSIVE initLoop(_, _, _)
initLoop(cs, keys, log) ==
    IF keys = <<>> THEN Res(cs, log, "returned")
    ELSE IF EntryOf(cs.modules, Head(keys)).instance # Null
    THEN Res(cs, log, "returned")
    ELSE LET r == initModule(cs, Head(keys))
         IN  initLoop(r.cs, Tail(keys), log \o r.log)

\* An init that forgets to replace itself.
sealInit_Noop(cs) == cs

\* this.init = function() { return this; }
sealInit(cs) == [cs EXCEPT !.sealed = TRUE]

\* An init() that runs its walk on every call.
init_Again(cs) ==
    LET r == initLoop(cs, ForInKeys(cs.modules), <<>>)
    IN  Res(sealInit(r.cs),
            Append(r.log, Ev("afterInit", "init", "", "", "none")),
            "returned")

\* facade.init(): the function init() while this.init still is that
\* function, the replacement no-op afterwards.
init(cs) ==
    IF cs.sealed THEN Res(cs, <<>>, "returned")
    ELSE LET r == initLoop(cs, ForInKeys(cs.modules), <<>>)
         IN  Res(sealInit(r.cs),
                 Append(r.log, Ev("afterInit", "init", "", "", "none")),
                 "returned")

(* --------------------------- start / stop ----------------------------- *)

\* this.trigger(...) inside startModule / stopModule.  Both are called as
\* plain functions (startModule(id), not startModule.call(this, id)), so
\* `this` is not the facade and has no trigger method: the call raises a
\* TypeError and no event is emitted.
helperTrigger(cs, ev) == Res(cs, <<>>, "TypeError")

\* A start that invokes the hook without testing for an instance and a hook.
startModule_NoHookTest(cs, moduleId) ==
    IF ~moduleId.str \/ ~ModulesTruthy(cs.modules, moduleId.key)
    THEN helperTrigger(cs, Ev("warning", "startModule", "unknown", moduleId.key, "none"))
    ELSE IF moduleId.key \notin PoolIds(cs.modules)
    THEN Res(cs, <<>>, "returned")
    ELSE LET inst == EntryOf(cs.modules, moduleId.key).instance
         IN  IF inst # Null /\ HasStart(inst.kind)
             THEN IF StartThrows(inst.kind)
                  THEN Res(cs, <<Ev("start", "startModule", "", moduleId.key, "HookFault")>>,
                           "HookFault")
                  ELSE Res(cs, <<Ev("start", "startModule", "", moduleId.key, "none")>>,
                           "returned")
             ELSE Res(cs, <<>>, "TypeError")

\* startModule( moduleId )
startModule(cs, moduleId) ==
    IF ~moduleId.str \/ ~ModulesTruthy(cs.modules, moduleId.key)
    THEN helperTrigger(cs, Ev("warning", "startModule", "unknown", moduleId.key, "none"))
    ELSE IF moduleId.key \notin PoolIds(cs.modules)
    THEN Res(cs, <<>>, "returned")   \* an inherited method: .instance is undefined
    ELSE LET inst == EntryOf(cs.modules, moduleId.key).instance
         IN  IF inst # Null /\ HasStart(inst.kind)
             THEN IF StartThrows(inst.kind)
                  THEN Res(cs, <<Ev("start", "startModule", "", moduleId.key, "HookFault")>>,
                           "HookFault")
                  ELSE Res(cs, <<Ev("start", "startModule", "", moduleId.key, "none")>>,
                           "returned")
             ELSE Res(cs, <<>>, "returned")

\* A stop that keeps the reference to the stopped instance.
clearInstance_Keep(cs, i) == cs

\* module.instance = null, after module.instance.stop() returned
clearInstance(cs, i) == [cs EXCEPT !.modules[i].instance = Null]

\* A stopModule without the test module.instance !== null: reading .stop of
\* null throws.
stopModule_NoNullTest(cs, moduleId) ==
    IF ~moduleId.str \/ ~ModulesTruthy(cs.modules, moduleId.key)
    THEN helperTrigger(cs, Ev("warning", "stopModule", "unknown", moduleId.key, "none"))
    ELSE IF moduleId.key \notin PoolIds(cs.modules)
    THEN Res(cs, <<>>, "TypeError")
    ELSE LET i == IndexOf(cs.modules, moduleId.key)
             inst == cs.modules[i].instance
         IN  IF inst = Null THEN Res(cs, <<>>, "TypeError")
             ELSE IF HasStop(inst.kind)
             THEN IF StopThrows(inst.kind)
                  THEN Res(cs, <<Ev("stop", "stopModule", "", moduleId.key, "HookFault")>>,
                           "TypeError")
                  ELSE Res(clearInstance(cs, i),
                           <<Ev("stop", "stopModule", "", moduleId.key, "none")>>,
                           "returned")
             ELSE Res(cs, <<>>, "returned")

\* stopModule( moduleId )
stopModule(cs, moduleId) ==
    IF ~moduleId.str \/ ~ModulesTruthy(cs.modules, moduleId.key)
    THEN helperTrigger(cs, Ev("warning", "stopModule", "unknown", moduleId.key, "none"))
    ELSE IF moduleId.key \notin PoolIds(cs.modules)
    THEN Res(cs, <<>>, "TypeError")  \* an inherited method: undefined !== null,
                                     \* and reading undefined.stop throws
    ELSE LET i == IndexOf(cs.modules, moduleId.key)
             inst == cs.modules[i].instance
         IN  IF inst # Null /\ HasStop(inst.kind)
             THEN IF StopThrows(inst.kind)
                  THEN LET r == helperTrigger(cs, Ev("warning", "stopModule", "stop",
                                                     moduleId.key, "HookFault"))
                       IN  Res(r.cs,
                               <<Ev("stop", "stopModule", "", moduleId.key, "HookFault")>>
                                   \o r.log,
                               r.out)
                  ELSE Res(clearInstance(cs, i),
                           <<Ev("stop", "stopModule", "", moduleId.key, "none")>>,
                           "returned")
             ELSE Res(cs, <<>>, "returned")

\* The ids a call start(x) / stop(x) walks.  x is [shape |-> "id", id |-> a
\* string], [shape |-> "list", list |-> an array], or any other value
\* ("none": undefined, "other": e.g. a number), which selects every module.
\* skip: the ids the walk over the whole pool leaves out.
targets(cs, x, skip) ==
    IF x.shape = "id" THEN <<x.id>>
    ELSE IF x.shape = "list" THEN x.list
    ELSE LET keys == SelectSeq(ForInKeys(cs.modules), LAMBDA k : k \notin skip)
         IN  [i \in DOMAIN keys |-> Str(keys[i])]

\* A start() that ignores the autostart setting.
autostartOff_Ignored(cs) == {}

\* conf.modules[module] && conf.modules[module].autostart === false
autostartOff(cs) == cs.noAuto

RECURSIVE startEach(_, _, _)
startEach(cs, list, log) ==
    IF list = <<>> THEN Res(cs, log, "returned")
    ELSE LET r == startModule(cs, Head(list))
         IN  IF r.out # "returned" THEN Res(r.cs, log \o r.log, r.out)
             ELSE startEach(r.cs, Tail(list), log \o r.log)

\* start( specificModules )
start(cs, x) ==
    LET r == startEach(cs, targets(cs, x, autostartOff(cs)), <<>>)
    IN  IF r.out # "returned" THEN r
        ELSE Res(r.cs, Append(r.log, Ev("afterStart", "start", "", "", "none")),
                 "returned")

RECURSIVE stopEach(_, _, _)
stopEach(cs, list, log) ==
    IF list = <<>> THEN Res(cs, log, "returned")
    ELSE LET r == stopModule(cs, Head(list))
         IN  IF r.out # "returned" THEN Res(r.cs, log \o r.log, r.out)
             ELSE stopEach(r.cs, Tail(list), log \o r.log)

\* stop( specificModules )
stop(cs, x) ==
    LET r == stopEach(cs, targets(cs, x, {}), <<>>)
    IN  IF r.out # "returned" THEN r
        ELSE Res(r.cs, Append(r.log, Ev("afterStop", "stop", "", "", "none")),
                 "returned")

(* ------------------------- the host's calls --------------------------- *)

Fn(c) == [t |-> "function", v |-> c]
Tag(k) == [t |-> "string", v |-> k]
Other(k) == [t |-> "other", v |-> k]

\* The creators that are functions.
FnCreators == Creators \ {"NotFn"}

\* register(id, creator) for every valid id and every function.
PlainRegistrations == {<<Str(k), Fn(c), "NotFn">> : k \in Ids, c \in FnCreators}

\* The other call forms, under one id: register(id, 'standard', creator),
\* register(id, 'extension', creator), an unknown type tag, a type tag that
\* names a method inherited from Object.prototype, register(id), and an
\* extension under a name that every object inherits from Object.prototype.
TaggedRegistrations ==
    {<<Str("a"), Tag("standard"), c>> : c \in {"Good", "NotFn"}}
    \cup {<<Str("a"), Tag("extension"), c>> : c \in {"Good", "Throws", "NotFn"}}
    \cup {<<Str("a"), Tag("bogus"), "Good">>,
          <<Str("a"), Tag("toString"), "Good">>,
          <<Str("a"), Other("undefined"), "NotFn">>,
          <<Str("toString"), Tag("extension"), "Good">>}

\* Ids that are refused: the empty string, the number 2, and a name that
\* every object inherits from Object.prototype.
RefusedRegistrations ==
    {<<i, Fn("Good"), "NotFn">> : i \in {Str(""), NonStr("2"), Str("toString")}}

RegisterArgs == PlainRegistrations \cup TaggedRegistrations \cup RefusedRegistrations

NoList == <<>>
ById(a) == [shape |-> "id", id |-> a, list |-> NoList]
ByList(l) == [shape |-> "list", id |-> Str(""), list |-> l]
NoArg == [shape |-> "none", id |-> Str(""), list |-> NoList]
OtherArg == [shape |-> "other", id |-> Str(""), list |-> NoList]

\* The id lists handed to start/stop: two ids in both orders, a list that
\* starts with a number, and the empty list.
IdLists == {<<>>, <<Str("a"), Str("b")>>, <<Str("b"), Str("a")>>,
            <<NonStr("2"), Str("a")>>}

\* The argument of start/stop: absent, a number, a string, or an array.
LifecycleArgs ==
    {NoArg, OtherArg}
    \cup {ById(Str(k)) : k \in Ids}
    \cup {ByList(l) : l \in IdLists}

(* ------------------------------ extend -------------------------------- *)

\* The values extend() reads and writes: undefined, null, a number or a
\* boolean (Scalar, named by its literal: "8", "true"), a string (Text, by
\* its characters: "ab"), or a reference to an object of the memory.
Undef == [t |-> "undef", s |-> "", r |-> 0]
NullValue == [t |-> "null", s |-> "", r |-> 0]
Scalar(x) == [t |-> "scalar", s |-> x, r |-> 0]
Text(x) == [t |-> "string", s |-> x, r |-> 0]
Ref(a) == [t |-> "ref", s |-> "", r |-> a]

\* An object of the memory: a plain object ("object", created by {}), an
\* array ("array"), or any other object ("opaque", e.g. `new Date()`), with
\* its own enumerable properties in creation order.  The memory is the
\* sequence of the objects, an object's address being its position.
Obj(kind, props) == [kind |-> kind, props |-> props]
Prop(key, val) == [key |-> key, val |-> val]

OwnKeys(o) == {o.props[i].key : i \in DOMAIN o.props}

\* h[a][name]: the own property, or undefined.
Get(h, a, name) ==
    IF name \in OwnKeys(h[a])
    THEN h[a].props[CHOOSE i \in DOMAIN h[a].props : h[a].props[i].key = name].val
    ELSE Undef

\* h[a][name] = v
Put(h, a, name, v) ==
    IF name \in OwnKeys(h[a])
    THEN LET i == CHOOSE j \in DOMAIN h[a].props : h[a].props[j].key = name
         IN  [h EXCEPT ![a].props[i].val = v]
    ELSE [h EXCEPT ![a].props = Append(@, Prop(name, v))]

\* The names `for ( name in options )` visits: array-index keys in ascending
\* numeric order, then the other keys in creation order.
ForIn(o) ==
    LET keys == [i \in DOMAIN o.props |-> o.props[i].key]
    IN  SortedIndexKeys({k \in OwnKeys(o) : IsArrayIndex(k)})
        \o SelectSeq(keys, LAMBDA k : ~IsArrayIndex(k))

\* isPlainObject( v ) and isArray( v )
isPlainObject(h, v) == v.t = "ref" /\ h[v.r].kind = "object"
isArray(h, v) == v.t = "ref" /\ h[v.r].kind = "array"

\* What extend leaves behind: the memory, the outcome ("returned", or
\* "RangeError" when the recursion exhausts the call stack), and the target
\* it returns.
Merged(h, out, target) == [heap |-> h, out |-> out, target |-> target]

\* A merge that recurses into plain objects only.
recurses_ObjectsOnly(h, deep, copy) == deep /\ isPlainObject(h, copy)

\* deep && copy && ( isPlainObject(copy) || (copyIsArray = isArray(copy)) )
recurses(h, deep, copy) == deep /\ (isPlainObject(h, copy) \/ isArray(h, copy))

\* A merge that always starts from an empty clone.
reuses_Never(h, src, copy) == FALSE

\* src && isArray(src) for an array copy, src && isPlainObject(src) for a
\* plain object copy: the clone is the value the target holds already.
reuses(h, src, copy) ==
    IF isArray(h, copy) THEN isArray(h, src) ELSE isPlainObject(h, src)

\* The loop `for ( name in options )` of extend for the names not yet
\* visited, the recursive call of line 136 included; depth is the number of
\* extend frames on the call stack.
RECURSIVE extendNames(_, _, _, _, _, _)
extendNames(h, deep, target, options, names, depth) ==
    IF names = <<>> THEN Merged(h, "returned", target)
    ELSE LET name == Head(names)
             src == Get(h, target, name)
             copy == Get(h, options, name)
         IN  IF copy = Ref(target)
             THEN extendNames(h, deep, target, options, Tail(names), depth)
             ELSE IF recurses(h, deep, copy)
             THEN IF depth >= StackDepth
                  THEN Merged(h, "RangeError", target)
                  ELSE LET old == reuses(h, src, copy)
                           clone == IF old THEN src.r ELSE Len(h) + 1
                           h1 == IF old THEN h
                                 ELSE Append(h, Obj(h[copy.r].kind, <<>>))
                           r == extendNames(h1, deep, clone, copy.r,
                                            ForIn(h1[copy.r]), depth + 1)
                       IN  IF r.out # "returned" THEN Merged(r.heap, r.out, target)
                           ELSE extendNames(Put(r.heap, target, name, Ref(clone)),
                                            deep, target, options, Tail(names), depth)
             ELSE IF copy # Undef
             THEN extendNames(Put(h, target, name, copy),
                              deep, target, options, Tail(names), depth)
             ELSE extendNames(h, deep, target, options, Tail(names), depth)

\* The characters of a string, as one-character strings.
Chars(x) == [i \in 1..Len(x) |-> SubSeq(x, i, i)]

\* The property name of the i-th character of a string, counted from 1.
IndexKey(i) == ToString(i - 1)

\* The loop `for ( name in options )` for a source that is a string: the
\* names are the indices of its characters, every copy is a one-character
\* string, which is neither the target nor merged recursively, and is
\* assigned (line 140).
RECURSIVE extendText(_, _, _, _)
extendText(h, target, chars, i) ==
    IF i > Len(chars) THEN h
    ELSE extendText(Put(h, target, IndexKey(i), Text(chars[i])), target, chars, i + 1)

\* The loop over the sources arguments[i]: null and undefined are skipped
\* (line 114); for a number or a boolean `for ( name in options )` visits
\* nothing; the characters of a string are copied by index; the own
\* properties of an object are merged.
RECURSIVE extendSources(_, _, _, _)
extendSources(h, deep, target, sources) ==
    IF sources = <<>> THEN Merged(h, "returned", target)
    ELSE IF Head(sources).t \in {"undef", "null", "scalar"}
    THEN extendSources(h, deep, target, Tail(sources))
    ELSE IF Head(sources).t = "string"
    THEN extendSources(extendText(h, target, Chars(Head(sources).s), 1),
                       deep, target, Tail(sources))
    ELSE LET r == extendNames(h, deep, target, Head(sources).r,
                              ForIn(h[Head(sources).r]), 1)
         IN  IF r.out # "returned" THEN r
             ELSE extendSources(r.heap, deep, target, Tail(sources))

\* extend( target, s1, ... ) and extend( deep, target, s1, ... ) with at
\* least one source: a target that is not an object is replaced by {}.
extend(h, deep, target, sources) ==
    IF target.t = "ref"
    THEN extendSources(h, deep, target.r, sources)
    ELSE extendSources(Append(h, Obj("object", <<>>)), deep, Len(h) + 1, sources)

(* ----------------------------- observer ------------------------------- *)

NoHist == [created |-> 0, started |-> FALSE, stopped |-> FALSE,
           first |-> "none", dup |-> FALSE, late |-> FALSE]

Count(log, t, id) == Cardinality({i \in DOMAIN log : log[i].t = t /\ log[i].id = id})

\* What the call with this log adds to the history of every id:
\*   created  how often init() has invoked a creator for the id
\*   started  a start hook of the module has been invoked
\*   stopped  a stop hook of the module has returned
\*   first    the creator of the first registration that created the entry
\*   dup      a registration under the id was refused as a duplicate
\*   late     the entry of the id was created after init() had returned
Observe(h, log, mods) ==
    [id \in Ids |->
        [created |-> h[id].created + Count(log, "creator", id),
         started |-> h[id].started \/ Count(log, "start", id) > 0,
         stopped |-> h[id].stopped
                     \/ \E i \in DOMAIN log :
                            log[i].t = "stop" /\ log[i].id = id /\ log[i].err = "none",
         first   |-> IF h[id].first = "none" /\ id \in PoolIds(mods)
                     THEN EntryOf(mods, id).creator
                     ELSE h[id].first,
         dup     |-> h[id].dup
                     \/ \E i \in DOMAIN log :
                            log[i].site = "registerStandardModule" /\ log[i].id = id,
         late    |-> h[id].late
                     \/ (initDone /\ id \in PoolIds(mods) \ PoolIds(modules))]]

\* The record of a call: the operation and its arguments, the module pool
\* and the extension pool before it (pre, prex), whether init() had returned
\* before it (inited), and
\* the log and outcome of the call.
Call(op, id, a1, a2, x, r) ==
    [op |-> op, id |-> id, a1 |-> a1, a2 |-> a2, x |-> x,
     pre |-> modules, prex |-> extensions, inited |-> initDone,
     log |-> r.log, out |-> r.out]

Commit(op, id, a1, a2, x, r) ==
    /\ modules' = r.cs.modules
    /\ extensions' = r.cs.extensions
    /\ sealed' = r.cs.sealed
    /\ sandboxes' = r.cs.sandboxes
    /\ noAuto' = noAuto
    /\ last' = Call(op, id, a1, a2, x, r)
    /\ hist' = Observe(hist, r.log, r.cs.modules)
    /\ initDone' = (initDone \/ (op = "init" /\ r.out = "returned"))
    /\ calls' = calls + 1
    /\ UNCHANGED <<mem, mem0, merge>>

(* --------------------------- specification ---------------------------- *)

\* The facade is constructed with settings
\*   { modules: { b: { autostart: false } } }
\* so that pools hold modules with and without the opt-out.
AutostartOff == {"b"}

\* No call of extend has been made.
NoMerge == [phase |-> "fresh", deep |-> FALSE, out |-> "returned"]

\* The registry of a facade on which nothing has been called.
Fresh ==
    /\ modules = <<>>
    /\ extensions = <<>>
    /\ sealed = FALSE
    /\ sandboxes = 0
    /\ noAuto = AutostartOff
    /\ last = [op |-> "new", id |-> Str(""), a1 |-> Other(""), a2 |-> "NotFn",
               x |-> NoArg, pre |-> <<>>, prex |-> <<>>, inited |-> FALSE,
               log |-> <<>>, out |-> "returned"]
    /\ hist = [id \in Ids |-> NoHist]
    /\ initDone = FALSE
    /\ calls = 0

Init ==
    /\ Fresh
    /\ mem = <<>>
    /\ mem0 = <<>>
    /\ merge = NoMerge

Register ==
    /\ calls < MaxCalls
    /\ \E a \in RegisterArgs :
          Commit("register", a[1], a[2], a[3], NoArg,
                 register(Core, a[1], a[2], a[3]))

DoInit ==
    /\ calls < MaxCalls
    /\ Commit("init", Str(""), Other(""), "NotFn", NoArg, init(Core))

Start ==
    /\ calls < MaxCalls
    /\ \E x \in LifecycleArgs :
          Commit("start", Str(""), Other(""), "NotFn", x, start(Core, x))

Stop ==
    /\ calls < MaxCalls
    /\ \E x \in LifecycleArgs :
          Commit("stop", Str(""), Other(""), "NotFn", x, stop(Core, x))

Next == Register \/ DoInit \/ Start \/ Stop

Spec == Init /\ [][Next]_vars

(* -------------------- specification of extend ------------------------- *)

\* The memories the host calls extend on.  Six objects:
\*   1  the target          { a: .. }
\*   2  the first source    { a: .. }
\*   3  the second source   { a: .. }
\*   4  an object or array the target alone refers to
\*   5, 6  objects or arrays the sources refer to
\* A property drawn as undefined is left out of the object.
Top(v) == Obj("object", IF v = Undef THEN <<>> ELSE <<Prop("a", v)>>)

Nested(kind, v1, v2) ==
    LET keys == IF kind = "array" THEN <<"0", "1">> ELSE <<"x", "y">>
    IN  Obj(kind, SelectSeq(<<Prop(keys[1], v1), Prop(keys[2], v2)>>,
                            LAMBDA p : p.val # Undef))

\* The target: {}, { a: 9 }, or { a: <4> } with <4> one of {}, { x: 5 },
\* [], [5].
Targets ==
    {<<Top(v), Nested("object", Undef, Undef)>> : v \in {Undef, Scalar("9")}}
    \cup {<<Top(Ref(4)), Nested(k, v, Undef)>> :
              k \in {"object", "array"}, v \in {Undef, Scalar("5")}}

\* The first source: {}, { a: 8 }, { a: <5> }, { a: <6> }, or a reference
\* to itself or to the target under a.  The second source: {}, { a: 7 },
\* { a: <5> }, { a: <6> }.
FirstSources == {Top(v) : v \in {Undef, Scalar("8"), Ref(5), Ref(6), Ref(2), Ref(1)}}
SecondSources == {Top(v) : v \in {Undef, Scalar("7"), Ref(5), Ref(6)}}

\* <5>: a plain object, an array or another object with the values 1 (or
\* a reference back to the first source) and 2.  <6>: a plain object or an
\* array with the values 3 and 2.
FirstNested ==
    {Nested(k, v1, v2) : k \in {"object", "array", "opaque"},
                         v1 \in {Undef, Scalar("1"), Ref(2)},
                         v2 \in {Undef, Scalar("2")}}
SecondNested ==
    {Nested(k, v1, v2) : k \in {"object", "array"},
                         v1 \in {Undef, Scalar("3")},
                         v2 \in {Undef, Scalar("2")}}

Memories ==
    {<<t[1], s1, s2, t[2], n1, n2>> :
        t \in Targets, s1 \in FirstSources, s2 \in SecondSources,
        n1 \in FirstNested, n2 \in SecondNested}

InitExtend ==
    /\ Fresh
    /\ mem \in Memories
    /\ mem0 = mem
    /\ merge = NoMerge

\* t = extend(t, s1), t = extend(t, 'ab') or t = extend(t, 8): the target is
\* the product of an earlier shallow merge, of the first source, of a string
\* or of a number.
Prepare ==
    /\ merge.phase = "fresh"
    /\ \E s \in {Ref(2), Text("ab"), Scalar("8")} :
          LET r == extend(mem, FALSE, Ref(1), <<s>>)
          IN  /\ mem' = r.heap
              /\ mem0' = r.heap
              /\ merge' = [phase |-> "prepared", deep |-> FALSE, out |-> r.out]
    /\ UNCHANGED <<modules, extensions, sealed, sandboxes, noAuto, last, hist,
                   initDone, calls>>

\* extend(t, s1, s2) or extend(true, t, s1, s2).  mem0 keeps the memory the
\* call started from.
Merge ==
    /\ merge.phase \in {"fresh", "prepared"}
    /\ \E deep \in BOOLEAN :
          LET r == extend(mem, deep, Ref(1), <<Ref(2), Ref(3)>>)
          IN  /\ mem' = r.heap
              /\ mem0' = mem
              /\ merge' = [phase |-> "done", deep |-> deep, out |-> r.out]
    /\ UNCHANGED <<modules, extensions, sealed, sandboxes, noAuto, last, hist,
                   initDone, calls>>

NextExtend == Prepare \/ Merge

SpecExtend == InitExtend /\ [][NextExtend]_vars

(* ------------------------ vocabulary of the claims -------------------- *)

\* modules[k].instance in the pool mods.
InstanceIn(mods, k) == EntryOf(mods, k).instance

\* The last call emitted this event.
Emitted(t, site, msg, id, err) ==
    \E i \in DOMAIN last.log : last.log[i] = Ev(t, site, msg, id, err)

\* The last call emitted an event named t about id.
EmittedAbout(t, id) ==
    \E i \in DOMAIN last.log : last.log[i].t = t /\ last.log[i].id = id

\* The ids of the invocations of kind t ("creator", "start", "stop") the
\* last call made, in the order it made them.
Invoked(t) ==
    LET hits == SelectSeq(last.log, LAMBDA e : e.t = t)
    IN  [i \in DOMAIN hits |-> hits[i].id]

Range(q) == {q[i] : i \in DOMAIN q}

\* The last call registered a standard module: register(id, creator) or
\* register(id, 'standard', creator) with a non-empty string id.
IsModuleRegistration ==
    /\ last.op = "register"
    /\ last.id.str /\ last.id.key # ""
    /\ last.a1.t = "function" \/ last.a1 = Tag("standard")

\* The last call was the init() that constructs (the first one to return).
IsFirstInit == last.op = "init" /\ ~last.inited

(* -------------------------------- C1 ---------------------------------- *)

\* C1: a registration of a module under an id that is already in the module
\* pool leaves the pool (creator and instance of the entry) as it was and
\* emits a 'warning' event; and every creator init() invokes is the creator
\* of the first registration under its id.
C1_DuplicateRejected ==
    /\ \A k \in Ids :
          (IsModuleRegistration /\ last.id.key = k /\ k \in PoolIds(last.pre))
              => /\ modules = last.pre
                 /\ Emitted("warning", "registerStandardModule", "exists", k, "none")
    /\ \A i \in DOMAIN last.log :
          last.log[i].t = "creator" => last.log[i].msg = hist[last.log[i].id].first

\* init() constructs a module, with the creator of its first registration,
\* after a second registration under its id was refused.
C1_Witness ==
    /\ IsFirstInit
    /\ \E k \in PoolIds(modules) :
          /\ hist[k].dup
          /\ InstanceIn(modules, k) # Null
          /\ InstanceIn(modules, k).kind = hist[k].first
          /\ hist[k].first = "Good"

(* -------------------------------- C2 ---------------------------------- *)

\* Constructing with this creator raises a fault.
Faulting(c) == ~IsFunction(c) \/ CreatorThrows(c)

\* The 'error' events of the last call about id k.
ErrorsAbout(k) == {i \in DOMAIN last.log : last.log[i].t = "error" /\ last.log[i].id = k}

\* C2: init() isolates failures: whatever modules are registered and
\* whichever of their creators throw, init() returns, has invoked the
\* creator of every other module once and stored its instance, has left
\* instance null for each faulting module, and has emitted exactly one
\* 'error' event per faulting module, carrying its id.
C2_InitIsolatesFaults ==
    IsFirstInit =>
        /\ last.out = "returned"
        /\ PoolIds(modules) = PoolIds(last.pre)
        /\ \A k \in PoolIds(last.pre) :
              LET c == EntryOf(last.pre, k).creator
              IN  IF Faulting(c)
                  THEN /\ InstanceIn(modules, k) = Null
                       /\ Cardinality(ErrorsAbout(k)) = 1
                  ELSE /\ InstanceIn(modules, k) # Null
                       /\ InstanceIn(modules, k).kind = c
                       /\ Count(last.log, "creator", k) = 1
                       /\ ErrorsAbout(k) = {}

\* init() has walked a pool in which a module whose creator throws comes
\* before a module whose creator returns, and has constructed the latter.
C2_Witness ==
    /\ IsFirstInit
    /\ \E i, j \in DOMAIN last.log :
          /\ i < j
          /\ last.log[i].t = "error"
          /\ last.log[j].t = "creator" /\ last.log[j].err = "none"
          /\ InstanceIn(modules, last.log[j].id) # Null

(* -------------------------------- C3 ---------------------------------- *)

\* C3: once an init() has returned, every later init() invokes no creator,
\* emits no event, leaves the module pool as it was and returns; and no
\* creator of a module is invoked more than once.
C3_InitOnce ==
    /\ (last.op = "init" /\ last.inited) =>
          /\ last.log = <<>>
          /\ last.out = "returned"
          /\ modules = last.pre
    /\ \A k \in Ids : hist[k].created <= 1

\* A second init() on a facade that holds a constructed module.
C3_Witness ==
    /\ last.op = "init" /\ last.inited
    /\ \E k \in PoolIds(modules) : InstanceIn(modules, k) # Null

(* -------------------------------- C4 ---------------------------------- *)

\* C4: when a stop call runs a stop hook that throws, the entry keeps its
\* instance and a 'warning' event with the module id and the fault is
\* emitted.
C4_StopFaultWarns ==
    \A i \in DOMAIN last.log :
        (last.op = "stop" /\ last.log[i].t = "stop" /\ last.log[i].err = "HookFault")
            => /\ InstanceIn(modules, last.log[i].id) # Null
               /\ Emitted("warning", "stopModule", "stop", last.log[i].id, "HookFault")

(* -------------------------------- C5 ---------------------------------- *)

\* The closure state the last call started from (start and stop change
\* nothing but the module pool).
PreCore == [Core EXCEPT !.modules = last.pre]

\* The ids a start(x)/stop(x) call names, when x is an id or a list.
NamedIds == IF last.x.shape = "id" THEN <<last.x.id>> ELSE last.x.list

\* Not a string, or not the id of an entry of the pool.
BadId(a) == ~a.str \/ a.key \notin PoolIds(last.pre)

\* The ids of the invocations of kind t in a log.
InvokedIn(log, t) ==
    LET hits == SelectSeq(log, LAMBDA e : e.t = t)
    IN  [i \in DOMAIN hits |-> hits[i].id]

\* C5: for start(x) and stop(x) with x an id or a list of ids, every id that
\* is not a string or not in the pool causes a 'warning' event, and the hooks
\* invoked and the resulting pool are those of the same call without the bad
\* ids.
C5_BadIdsSkipped ==
    (last.op \in {"start", "stop"} /\ last.x.shape \in {"id", "list"}) =>
        LET good == SelectSeq(NamedIds, LAMBDA a : ~BadId(a))
            want == IF last.op = "start" THEN startEach(PreCore, good, <<>>)
                    ELSE stopEach(PreCore, good, <<>>)
        IN  /\ \A i \in DOMAIN NamedIds :
                  BadId(NamedIds[i]) => EmittedAbout("warning", NamedIds[i].key)
            /\ Invoked(last.op) = InvokedIn(want.log, last.op)
            /\ modules = want.cs.modules

(* -------------------------------- C6 ---------------------------------- *)

\* The module k of the pool before the last call holds an instance with a
\* start hook.
Startable(k) ==
    /\ k \in PoolIds(last.pre)
    /\ InstanceIn(last.pre, k) # Null
    /\ HasStart(InstanceIn(last.pre, k).kind)

\* The start hook of module k throws.
StartFaults(k) == StartThrows(InstanceIn(last.pre, k).kind)

\* A walk over the ids q that ends with the first one whose start hook throws.
RECURSIVE UpToFault(_)
UpToFault(q) ==
    IF q = <<>> THEN <<>>
    ELSE IF StartFaults(Head(q)) THEN <<Head(q)>>
    ELSE <<Head(q)>> \o UpToFault(Tail(q))

\* C6 as stated: start() with no argument invokes the start hook of exactly
\* the instantiated modules whose configuration does not carry
\* autostart === false; start(id) invokes the start hook of that module
\* only.
C6_StartsExactlyAutostart ==
    last.op = "start" =>
        /\ last.x.shape = "none" =>
              Range(Invoked("start")) = {k \in Ids : Startable(k) /\ k \notin noAuto}
        /\ last.x.shape = "id" =>
              Range(Invoked("start")) = {k \in {last.x.id.key} : Startable(k)}

\* C6, amended: start() with no argument walks the pool and invokes the
\* start hook of the instantiated modules whose configuration does not carry
\* autostart === false, up to and including the first one whose start hook
\* raises a fault; it returns if none does, and otherwise the fault reaches
\* the caller and the modules after the faulting one are not started.
\* start(id) invokes the start hook of that module only.
C6_StartsAutostartUpToFault ==
    last.op = "start" =>
        /\ last.x.shape = "none" =>
              LET due == SelectSeq(ForInKeys(last.pre),
                                   LAMBDA k : Startable(k) /\ k \notin noAuto)
              IN  /\ Invoked("start") = UpToFault(due)
                  /\ (last.out = "returned") = (\A i \in DOMAIN due : ~StartFaults(due[i]))
        /\ last.x.shape = "id" =>
              Range(Invoked("start")) = {k \in {last.x.id.key} : Startable(k)}

\* start() has started a module and has skipped an instantiated module with
\* a start hook because of its autostart setting.
C6_Witness ==
    /\ last.op = "start" /\ last.x.shape = "none" /\ last.out = "returned"
    /\ Invoked("start") # <<>>
    /\ \E k \in noAuto : Startable(k) /\ k \notin Range(Invoked("start"))

(* -------------------------------- C7 ---------------------------------- *)

\* The ids of the pool a stop(x) call is applied to: the id, the ids of the
\* list, or every id of the pool.
StopTargets ==
    LET q == targets(PreCore, last.x, {})
    IN  {q[i].key : i \in {j \in DOMAIN q : ~BadId(q[j])}}

\* A module holds an instance only after a construction and before the next
\* stop hook that returns.
InstanceOnlyWhileRunning ==
    \A k \in PoolIds(modules) :
        InstanceIn(modules, k) # Null => hist[k].created > 0 /\ ~hist[k].stopped

\* C7 as stated: when stop is applied to a module with an instance (by id,
\* in a list, or by stop() without argument) and no fault is raised, the
\* instance is null afterwards; and a module holds an instance only between
\* a construction and the next successful stop.
C7_StopClearsInstance ==
    /\ (last.op = "stop" /\ last.out = "returned") =>
          \A k \in StopTargets :
              InstanceIn(last.pre, k) # Null => InstanceIn(modules, k) = Null
    /\ InstanceOnlyWhileRunning

\* C7, amended: when stop is applied to a module whose instance has a stop
\* hook and no fault is raised, the instance is null afterwards; an instance
\* without a stop hook is left in place.  A module holds an instance only
\* between a construction and the next stop hook that returns.
C7_StopClearsStoppableInstance ==
    /\ (last.op = "stop" /\ last.out = "returned") =>
          \A k \in StopTargets :
              InstanceIn(last.pre, k) # Null =>
                  IF HasStop(InstanceIn(last.pre, k).kind)
                  THEN InstanceIn(modules, k) = Null
                  ELSE InstanceIn(modules, k) = InstanceIn(last.pre, k)
    /\ InstanceOnlyWhileRunning

\* stop() without argument has stopped two modules.
C7_Witness ==
    /\ last.op = "stop" /\ last.x.shape = "none" /\ last.out = "returned"
    /\ \E k, m \in StopTargets :
          /\ k # m
          /\ InstanceIn(last.pre, k) # Null /\ InstanceIn(modules, k) = Null
          /\ InstanceIn(last.pre, m) # Null /\ InstanceIn(modules, m) = Null

(* -------------------------------- C8 ---------------------------------- *)

\* The last call emitted a 'warning' or an 'error' event.
Complained == \E i \in DOMAIN last.log : last.log[i].t \in {"warning", "error"}

\* C8 as stated: for a registered module whose start hook has not been run,
\* constructed or not, stop(id) leaves the pool as it was and emits no
\* 'warning' or 'error' event.
C8_StopUnstartedIsNoOp ==
    \A k \in Ids :
        (last.op = "stop" /\ last.x = ById(Str(k)) /\ k \in PoolIds(last.pre)
            /\ ~hist[k].started)
        => modules = last.pre /\ ~Complained

\* C8, amended: for a registered module that holds no instance (not
\* constructed, construction failed, or stopped) or whose instance has no
\* stop hook, stop(id) invokes no hook, leaves the pool as it was, emits
\* 'afterStop' and nothing else, and returns.
C8_StopWithoutInstanceIsNoOp ==
    \A k \in Ids :
        (last.op = "stop" /\ last.x = ById(Str(k)) /\ k \in PoolIds(last.pre)
            /\ (InstanceIn(last.pre, k) = Null
                \/ ~HasStop(InstanceIn(last.pre, k).kind)))
        => /\ modules = last.pre
           /\ last.log = <<Ev("afterStop", "stop", "", "", "none")>>
           /\ last.out = "returned"

\* stop(id), after init(), of a module that init() could not construct.
C8_Witness ==
    /\ last.op = "stop" /\ last.x.shape = "id" /\ last.inited
    /\ last.x.id.key \in PoolIds(last.pre)
    /\ InstanceIn(last.pre, last.x.id.key) = Null
    /\ last.out = "returned"

(* -------------------------------- C9 ---------------------------------- *)

\* Length of the sequences of init()/start(x) calls tried for C9.
ReinitDepth == 2

\* Some sequence of at most n calls of init() and start(x) leads from the
\* closure state cs to one in which module k holds an instance.
RECURSIVE CanReinit(_, _, _)
CanReinit(cs, k, n) ==
    \/ InstanceIn(cs.modules, k) # Null
    \/ /\ n > 0
       /\ \/ CanReinit(init(cs).cs, k, n - 1)
          \/ \E x \in LifecycleArgs : CanReinit(start(cs, x).cs, k, n - 1)

\* C9 as stated: a module that was constructed and then stopped (instance
\* null again) can be brought to hold an instance again by some sequence of
\* init()/start() calls.
C9_StoppedCanBeReinitialized ==
    \A k \in PoolIds(modules) :
        (hist[k].stopped /\ InstanceIn(modules, k) = Null)
            => CanReinit(Core, k, ReinitDepth)

\* C9, amended: a stopped module is not re-initializable through the
\* facade: once a module was constructed and then stopped, its instance
\* stays null and its creator is not invoked again, whatever calls follow.
C9_StoppedStaysNull ==
    \A k \in PoolIds(modules) :
        hist[k].stopped => InstanceIn(modules, k) = Null /\ hist[k].created = 1

\* init() is called on a facade with a module that was constructed and then
\* stopped.
C9_Witness ==
    /\ last.op = "init"
    /\ \E k \in PoolIds(modules) :
          hist[k].stopped /\ hist[k].created = 1 /\ InstanceIn(modules, k) = Null

(* -------------------------------- C10 --------------------------------- *)

\* The ids q come in the order in which they were registered.
InRegistrationOrder(q) ==
    \A i, j \in DOMAIN q :
        i < j => IndexOf(last.pre, q[i]) < IndexOf(last.pre, q[j])

\* C10: init() invokes the creators, start() the start hooks and stop() the
\* stop hooks in the order in which the ids were registered, whatever
\* non-empty strings the ids are.
C10_RegistrationOrder ==
    /\ IsFirstInit => InRegistrationOrder(Invoked("creator"))
    /\ (last.op = "start" /\ last.x.shape = "none") => InRegistrationOrder(Invoked("start"))
    /\ (last.op = "stop" /\ last.x.shape = "none") => InRegistrationOrder(Invoked("stop"))

(* -------------------------------- C11 --------------------------------- *)

\* The positions of the events named t in the log of the last call.
Positions(t) == {i \in DOMAIN last.log : last.log[i].t = t}

\* The last call emitted the event t exactly once, as the last entry of its
\* log, hence after every hook it invoked.
ClosedBy(t, site) ==
    /\ Positions(t) = {Len(last.log)}
    /\ last.log # <<>>
    /\ last.log[Len(last.log)] = Ev(t, site, "", "", "none")

\* C11: every call of start(...) emits exactly one 'afterStart' event and
\* every call of stop(...) exactly one 'afterStop' event, after the last hook
\* the call invokes, whatever the argument (none, an id, a list, an unknown
\* or non-string id) and whether or not a hook raises a fault.
C11_AfterEventAlways ==
    /\ last.op = "start" => ClosedBy("afterStart", "start")
    /\ last.op = "stop"  => ClosedBy("afterStop", "stop")

(* -------------------------------- C12 --------------------------------- *)

\* The last call was start(id) with the id of a registered module that holds
\* no instance, or an instance without a start hook.
StartsHookless(k) ==
    /\ last.op = "start"
    /\ last.x = ById(Str(k))
    /\ k \in PoolIds(last.pre)
    /\ \/ InstanceIn(last.pre, k) = Null
       \/ ~HasStart(InstanceIn(last.pre, k).kind)

\* C12: start(id) on a registered module that holds no instance (not yet
\* constructed, construction failed, or stopped) or whose instance has no
\* start hook invokes no hook, leaves the pool as it was and emits 'afterStart'
\* and nothing else: no 'warning', no 'error'.
C12_StartWithoutHookIsNoOp ==
    \A k \in Ids :
        StartsHookless(k) =>
            /\ modules = last.pre
            /\ last.log = <<Ev("afterStart", "start", "", "", "none")>>
            /\ last.out = "returned"

\* start(id) on a module whose instance was cleared by a stop, and start(id)
\* on a constructed module without a start hook.
C12_Witness ==
    \E k \in Ids :
        /\ StartsHookless(k)
        /\ last.inited
        /\ \/ hist[k].stopped /\ InstanceIn(last.pre, k) = Null
           \/ InstanceIn(last.pre, k) # Null

(* -------------------------------- C13 --------------------------------- *)

\* The last call was register(id, 'extension', creator) with a non-empty
\* string id and a function as creator.
IsExtensionRegistration ==
    /\ last.op = "register"
    /\ last.id.str /\ last.id.key # ""
    /\ last.a1 = Tag("extension")
    /\ IsFunction(last.a2)

\* How often the last call invoked a creator as an extension.
ExtensionCreations == Cardinality(Positions("extcreator"))

\* C13: register(id, 'extension', creator) with an id that no extension is
\* registered under invokes creator exactly once, at once; if the creator
\* returns, its result is stored under the id; if it throws, an 'error' event
\* is emitted, nothing is stored and register returns.  A registration under
\* an id that is in use emits 'error' and invokes no creator, and no call ever
\* replaces a stored extension.
C13_ExtensionCreatedOnce ==
    /\ \A k \in DOMAIN last.prex :
           k \in DOMAIN extensions /\ extensions[k] = last.prex[k]
    /\ IsExtensionRegistration =>
         LET k == last.id.key
         IN  /\ last.out = "returned"
             /\ IF k \in DOMAIN last.prex
                THEN /\ ExtensionCreations = 0
                     /\ EmittedAbout("error", k)
                     /\ extensions = last.prex
                ELSE /\ ExtensionCreations = 1
                     /\ IF CreatorThrows(last.a2)
                        THEN /\ EmittedAbout("error", k)
                             /\ extensions = last.prex
                        ELSE extensions = (k :> [kind |-> last.a2]) @@ last.prex

(* -------------------------------- C14 --------------------------------- *)

\* The last call offered a value that is not a function as the creator of a
\* standard module under a non-empty string id no module is registered
\* under: register(id, 'standard', creator) with such a creator, or
\* register(id, creator) with it (arg1 is then not a function).
OffersNonFunction ==
    /\ last.op = "register"
    /\ last.id.str /\ last.id.key # ""
    /\ last.id.key \notin PoolIds(last.pre)
    /\ \/ last.a1 = Tag("standard") /\ ~IsFunction(last.a2)
       \/ last.a1.t = "other"

\* C14: registering a module under a valid id that is not in use with a
\* creator that is not a function, as register(id, creator) or as
\* register(id, 'standard', creator), emits a 'warning' event, stores the
\* entry with instance null, and returns without raising.
C14_NonFunctionCreatorStored ==
    OffersNonFunction =>
        /\ EmittedAbout("warning", last.id.key)
        /\ last.id.key \in PoolIds(modules)
        /\ InstanceIn(modules, last.id.key) = Null
        /\ last.out = "returned"

(* ------------------- vocabulary of the extend claims ------------------ *)

\* The objects an object refers to, and the objects reachable from a set.
RefsOf(h, a) ==
    {h[a].props[i].val.r : i \in {j \in DOMAIN h[a].props : h[a].props[j].val.t = "ref"}}

RECURSIVE Reach(_, _)
Reach(h, S) ==
    LET more == S \cup UNION {RefsOf(h, a) : a \in S}
    IN  IF more = S THEN S ELSE Reach(h, more)

\* No object reachable from S contains itself.
Acyclic(h, S) == \A a \in Reach(h, S) : a \notin Reach(h, RefsOf(h, a))

\* The content of a value as a set of <<path, leaf>> pairs: a number or
\* boolean is its literal, a string its text in quotes, a plain object "{}" and an array "[]" followed by the content
\* of their properties, any other object "opaque".  Defined on acyclic values.
RECURSIVE View(_, _, _)
View(h, v, path) ==
    IF v.t = "undef" THEN {}
    ELSE IF v.t = "null" THEN {<<path, "null">>}
    ELSE IF v.t = "scalar" THEN {<<path, v.s>>}
    ELSE IF v.t = "string" THEN {<<path, "'" \o v.s \o "'">>}
    ELSE IF h[v.r].kind = "opaque" THEN {<<path, "opaque">>}
    ELSE {<<path, IF h[v.r].kind = "array" THEN "[]" ELSE "{}">>}
         \cup UNION {View(h, h[v.r].props[i].val, Append(path, h[v.r].props[i].key)) :
                        i \in DOMAIN h[v.r].props}

IsPrefix(p, q) == Len(p) <= Len(q) /\ SubSeq(q, 1, Len(p)) = p
IsLeaf(e) == e[2] \notin {"{}", "[]"}

\* The key-wise union of two contents, the second one winning: an entry of
\* the first is dropped when the second has, at its path or above it, a leaf,
\* or an object or array where the first has none of that kind.
Union(P, Q) ==
    Q \cup {e \in P : ~\E f \in Q : /\ IsPrefix(f[1], e[1])
                                    /\ IsLeaf(f) \/ f \notin P}

\* The replacement of top-level values: an entry of the first content is
\* dropped when the second defines the top-level key it lies under.
Replace(P, Q) ==
    Q \cup {e \in P : e[1] = <<>> \/ ~\E f \in Q : f[1] # <<>> /\ f[1][1] = e[1][1]}

\* The contents of the target and the sources when the call began, and of
\* the target after it.
Before(a) == View(mem0, Ref(a), <<>>)
After == View(mem, Ref(1), <<>>)

\* The value of the last source that defines a, else the target's.
LastDefined ==
    IF Get(mem0, 3, "a") # Undef THEN Get(mem0, 3, "a")
    ELSE IF Get(mem0, 2, "a") # Undef THEN Get(mem0, 2, "a")
    ELSE Get(mem0, 1, "a")

\* The call extend([deep,] t, s1, s2) has been made.
Called == merge.phase = "done"

\* Every object the call could reach was of one of these kinds.
AllOfKind(kinds) == \A a \in Reach(mem0, {1, 2, 3}) : mem0[a].kind \in kinds

\* The target shared no object with the sources.
Disjoint == Reach(mem0, {1}) \cap Reach(mem0, {2, 3}) = {}

(* -------------------------------- C15 --------------------------------- *)

\* C15: extend on a target and sources that are trees of plain objects (no
\* object shared between target and sources): in deep mode the content of
\* the target after the call is the recursive key-wise union of the contents
\* of the target and of the sources, later sources winning; in shallow mode
\* each top-level value is the very value of the last source that defines it,
\* not a union.
C15_DeepUnionShallowReplace ==
    (Called /\ AllOfKind({"object"}) /\ Disjoint /\ Acyclic(mem0, {1, 2, 3})) =>
        /\ merge.out = "returned"
        /\ merge.deep => After = Union(Union(Before(1), Before(2)), Before(3))
        /\ ~merge.deep =>
              /\ After = Replace(Replace(Before(1), Before(2)), Before(3))
              /\ Get(mem, 1, "a") = LastDefined

\* extend(true, { a: { x: 5 } }, { a: { y: 2 } }, {}) has given
\* { a: { x: 5, y: 2 } }.
C15_Witness ==
    /\ Called /\ merge.deep /\ Acyclic(mem0, {1, 2, 3})
    /\ Before(1) = {<< <<>>, "{}" >>, << <<"a">>, "{}" >>, << <<"a", "x">>, "5" >>}
    /\ Before(2) = {<< <<>>, "{}" >>, << <<"a">>, "{}" >>, << <<"a", "y">>, "2" >>}
    /\ Before(3) = {<< <<>>, "{}" >>}
    /\ After = {<< <<>>, "{}" >>, << <<"a">>, "{}" >>,
                << <<"a", "x">>, "5" >>, << <<"a", "y">>, "2" >>}

(* -------------------------------- C16 --------------------------------- *)

\* Both sources held an array under a, in deep mode, on acyclic values.
SequencesMerged ==
    /\ Called /\ merge.deep
    /\ Acyclic(mem0, {1, 2, 3})
    /\ isArray(mem0, Get(mem0, 2, "a"))
    /\ isArray(mem0, Get(mem0, 3, "a"))

\* C16 as stated: in deep mode, when both sources hold an array under the
\* same key, the merged value has the content of the last source's array:
\* { a: [1, 2] } and then { a: [3] } give { a: [3] }.
C16_LastSequenceWins ==
    SequencesMerged =>
        View(mem, Get(mem, 1, "a"), <<>>) = View(mem0, Get(mem0, 3, "a"), <<>>)

\* C16, amended: in deep mode, when both sources hold an array under the same
\* key, the merged value is an array of the target that holds, at each index,
\* the element of the last array that has the index: elements of the earlier
\* array (and of an array the target held) at indices the later one lacks are
\* kept.  { a: [1, 2] } and then { a: [3] } give { a: [3, 2] }.
C16_SequencesMergeByIndex ==
    SequencesMerged =>
        /\ merge.out = "returned"
        /\ After = Union(Union(Before(1), Before(2)), Before(3))
        /\ isArray(mem, Get(mem, 1, "a"))
        /\ Get(mem, 1, "a") \notin {Get(mem0, 2, "a"), Get(mem0, 3, "a")}
              \/ Get(mem, 1, "a") = Get(mem0, 1, "a")

\* extend(true, {}, { a: [1, 2] }, { a: [3] }) has given
\* { a: [3, 2] }.
C16_Witness ==
    /\ SequencesMerged
    /\ Before(1) = {<< <<>>, "{}" >>}
    /\ Before(2) = {<< <<>>, "{}" >>, << <<"a">>, "[]" >>,
                    << <<"a", "0">>, "1" >>, << <<"a", "1">>, "2" >>}
    /\ Before(3) = {<< <<>>, "{}" >>, << <<"a">>, "[]" >>, << <<"a", "0">>, "3" >>}
    /\ After = {<< <<>>, "{}" >>, << <<"a">>, "[]" >>,
                << <<"a", "0">>, "3" >>, << <<"a", "1">>, "2" >>}

(* -------------------------------- C17 --------------------------------- *)

\* The objects the sources owned when the call began: the sources and what
\* they referred to, directly or through other objects.
SourceOwned == Reach(mem0, {2, 3})

\* C17: a call extend([deep,] t, s1, s2) whose sources do not refer to the
\* target leaves every source and every object nested in a source as it was,
\* in shallow and in deep mode, also when the target is the product of an
\* earlier merge.
C17_SourcesUntouched ==
    (Called /\ 1 \notin SourceOwned) =>
        \A a \in SourceOwned : mem[a] = mem0[a]

(* -------------------------------- C18 --------------------------------- *)

\* C18: extend(true, t, s1, s2) returns for every configuration of the
\* sources, also when a source refers to itself, directly or through a
\* nested object, or to the target.
C18_DeepMergeReturns ==
    (Called /\ merge.deep) => merge.out = "returned"

(* -------------------------------- C19 --------------------------------- *)

\* C19: a module whose entry was created after the first init() had returned
\* is never constructed: whatever calls follow, its entry holds no instance,
\* its creator has not been invoked, and no start or stop hook of it has been
\* invoked.
C19_LateModuleNeverConstructed ==
    \A k \in Ids :
        hist[k].late =>
            /\ k \in PoolIds(modules)
            /\ InstanceIn(modules, k) = Null
            /\ hist[k].created = 0
            /\ ~hist[k].started /\ ~hist[k].stopped
            /\ ~EmittedAbout("creator", k)
            /\ ~EmittedAbout("start", k) /\ ~EmittedAbout("stop", k)

\* A module registered after init() had returned, with a creator that would
\* construct an instance with a start hook, and then started by its id.
C19_Witness ==
    \E k \in Ids :
        /\ hist[k].late
        /\ IsFunction(EntryOf(modules, k).creator)
        /\ ~CreatorThrows(EntryOf(modules, k).creator)
        /\ HasStart(EntryOf(modules, k).creator)
        /\ last.op = "start" /\ last.x = ById(Str(k))

(* -------------------------------- C20 --------------------------------- *)

\* C20: register(id, type, creator) with a non-empty string id and a string
\* type that is not a key of moduleTypeMap emits a 'warning' event, leaves
\* the module pool and the extension pool as they were, invokes no creator,
\* and returns without raising.
C20_UnknownTypeIsRefused ==
    ( /\ last.op = "register"
      /\ last.id.str /\ last.id.key # ""
      /\ last.a1.t = "string"
      /\ last.a1.v \notin {"standard", "extension"} ) =>
        /\ EmittedAbout("warning", last.id.key)
        /\ modules = last.pre
        /\ extensions = last.prex
        /\ Positions("creator") \cup Positions("extcreator") = {}
        /\ last.out = "returned"

====
